---- MODULE Spec2Model ----
(***************************************************************************)
(* EcoSense / CityPulse: the ETL pipeline (services/etl.py as documented   *)
(* in docs/PIPELINE.md), the star schema it loads (ecosenseDB.sql) and the *)
(* orchestrating main() loop.                                              *)
(*                                                                         *)
(* Nullable numbers are <<>> (NULL / NaN / None) or <<v>>.                 *)
(* An ISO time string "YYYY-MM-DDTHH:00" of the hourly grid is modelled as *)
(* <<"iso", h>>, and the datetime it parses to as the hour number h.       *)
(***************************************************************************)
EXTENDS Integers, Sequences, FiniteSets, Bags, TLC

VARIABLES
    db,          \* committed tables: dim_city, fact_weather, fact_air_quality
    city_id_seq, \* the SERIAL sequence behind dim_city.city_id
    conn,        \* the psycopg2 connection: open?, transaction status, its view
    pc,          \* position of main(): "idle","fetch","transform","predict","load","done"
    idx,         \* index of the current city in CITIES
    w, aq,       \* the two fetched payloads
    df,          \* the DataFrame handed from stage to stage
    stdout,      \* what the current invocation printed, one entry per line
    attempted,   \* cities the current invocation has started on, in order
    raised,      \* <<city, stage>> for every stage that raised in this invocation
    runs,        \* invocations / loader calls made so far
    last,        \* the last load_to_db call: its input, outcome and pre-state
    data,        \* the dashboard's rows (App.tsx state `data`), oldest first
    stats,       \* the dashboard's computed KPI / QA metrics, or null
    selectedCityName,  \* the city chosen in the dashboard's selector
    requests,    \* the fetchDashboardData calls awaiting their response
    loading      \* the dashboard's `loading` flag

vars == <<db, city_id_seq, conn, pc, idx, w, aq, df, stdout, attempted, raised,
          runs, last, data, stats,
                   selectedCityName, requests, loading>>

----------------------------------------------------------------------------
(* Bounds *)

MaxTs == 2
MaxRows == 2
MaxLen == 2
MaxRuns == 2
MaxLoads == 2
MaxHour == 3
MaxFrame == 11
MaxData == 3
MaxOver == 2
MaxSelect == 3

----------------------------------------------------------------------------
(* Values *)

Null == <<>>
Some(v) == <<v>>
IsNull(x) == x = <<>>
Val(x) == x[1]

Range(s) == {s[i] : i \in 1..Len(s)}

SeqsUpTo(S, n) == UNION {[1..k -> S] : k \in 0..n}

Hours == 1..MaxTs

IsoTime(h) == <<"iso", h>>

\* pd.to_datetime on one ISO string of the hourly grid
to_datetime(s) == s[2]

----------------------------------------------------------------------------
(* The city list of etl.py and the seeded dimension *)

CITIES ==
    << [name |-> "Moscow", country |-> "RU", lat |-> 557558, lng |-> 376173],
       [name |-> "Kazan",  country |-> "RU", lat |-> 557887, lng |-> 491221] >>

CityNames == {CITIES[i].name : i \in 1..Len(CITIES)}

\* ecosenseDB.sql after one run on an empty database: the seeded city
SeedCities ==
    { [city_id |-> 1, name |-> "Moscow", country_code |-> "RU",
       latitude |-> 557558, longitude |-> 376173] }

EmptyTables ==
    [dim_city |-> SeedCities, fact_weather |-> EmptyBag, fact_air_quality |-> EmptyBag]

----------------------------------------------------------------------------
(* The tables.  dim_city is a set of rows (city_id is modelled).  A fact    *)
(* table is the bag of its rows projected on the columns below: the SERIAL *)
(* surrogate key and created_at are left out, so two rows that differ only *)
(* in them are two copies of one element.                                  *)

WeatherTuple(city_id, row) ==
    [city_id |-> city_id, timestamp |-> row.timestamp,
     temperature |-> row.temperature, humidity |-> row.humidity,
     wind_speed |-> row.wind_speed]

AqTuple(city_id, row) ==
    [city_id |-> city_id, timestamp |-> row.timestamp,
     pm10 |-> row.pm10, pm25 |-> row.pm25,
     predicted_pm25 |-> row.predicted_pm25]

Key(r) == <<r.city_id, r.timestamp>>

\* number of rows of a fact table under one (city_id, timestamp)
RowsUnder(table, k) ==
    BagCardinality([r \in {x \in BagToSet(table) : Key(x) = k} |-> table[r]])

\* the rows a statement proposes, as a bag
BatchBag(batch) ==
    [r \in Range(batch) |-> Cardinality({i \in 1..Len(batch) : batch[i] = r})]

\* PostgreSQL rejects an INSERT .. ON CONFLICT DO UPDATE whose VALUES list
\* proposes one key twice ("cannot affect row a second time")
CardinalityViolation(batch) ==
    \E i, j \in 1..Len(batch) : i < j /\ Key(batch[i]) = Key(batch[j])

Proposed(batch, k) == batch[CHOOSE i \in 1..Len(batch) : Key(batch[i]) = k]

BatchKeys(batch) == {Key(batch[i]) : i \in 1..Len(batch)}

TableKeys(table) == {Key(r) : r \in BagToSet(table)}

\* the statement without its ON CONFLICT clause, on a table without UNIQUE
insert_weather_plain(table, batch) == table (+) BatchBag(batch)

\* INSERT INTO fact_weather .. ON CONFLICT (city_id, timestamp) DO UPDATE SET ..
insert_weather(table, batch) ==
    LET kept == {r \in BagToSet(table) : Key(r) \notin BatchKeys(batch)}
        updated == {[r EXCEPT !.temperature = Proposed(batch, Key(r)).temperature,
                              !.humidity = Proposed(batch, Key(r)).humidity,
                              !.wind_speed = Proposed(batch, Key(r)).wind_speed] :
                    r \in {x \in BagToSet(table) : Key(x) \in BatchKeys(batch)}}
        inserted == {r \in Range(batch) : Key(r) \notin TableKeys(table)}
    IN  [r \in kept |-> table[r]] (+) SetToBag(updated) (+) SetToBag(inserted)

\* the statement with predicted_pm25 missing from its SET list
insert_air_quality_stale_prediction(table, batch) ==
    LET kept == {r \in BagToSet(table) : Key(r) \notin BatchKeys(batch)}
        updated == {[r EXCEPT !.pm10 = Proposed(batch, Key(r)).pm10,
                              !.pm25 = Proposed(batch, Key(r)).pm25] :
                    r \in {x \in BagToSet(table) : Key(x) \in BatchKeys(batch)}}
        inserted == {r \in Range(batch) : Key(r) \notin TableKeys(table)}
    IN  [r \in kept |-> table[r]] (+) SetToBag(updated) (+) SetToBag(inserted)

\* the statement without its ON CONFLICT clause, on a table without UNIQUE
insert_air_quality_plain(table, batch) == table (+) BatchBag(batch)

\* INSERT INTO fact_air_quality .. ON CONFLICT (city_id, timestamp) DO UPDATE SET ..
insert_air_quality(table, batch) ==
    LET kept == {r \in BagToSet(table) : Key(r) \notin BatchKeys(batch)}
        updated == {[r EXCEPT !.pm10 = Proposed(batch, Key(r)).pm10,
                              !.pm25 = Proposed(batch, Key(r)).pm25,
                              !.predicted_pm25 = Proposed(batch, Key(r)).predicted_pm25] :
                    r \in {x \in BagToSet(table) : Key(x) \in BatchKeys(batch)}}
        inserted == {r \in Range(batch) : Key(r) \notin TableKeys(table)}
    IN  [r \in kept |-> table[r]] (+) SetToBag(updated) (+) SetToBag(inserted)

\* the INSERT without its ON CONFLICT clause, on a table without UNIQUE (name)
insert_city_plain(dim_city, seq, city) ==
    dim_city \cup {[city_id |-> seq, name |-> city.name,
                    country_code |-> city.country,
                    latitude |-> city.lat, longitude |-> city.lng]}

\* the statement written with ON CONFLICT (name) DO UPDATE SET ..
insert_city_update(dim_city, seq, city) ==
    IF \E r \in dim_city : r.name = city.name
    THEN {IF r.name = city.name
          THEN [r EXCEPT !.country_code = city.country,
                         !.latitude = city.lat, !.longitude = city.lng]
          ELSE r : r \in dim_city}
    ELSE dim_city \cup {[city_id |-> seq, name |-> city.name,
                         country_code |-> city.country,
                         latitude |-> city.lat, longitude |-> city.lng]}

\* INSERT INTO dim_city .. ON CONFLICT (name) DO NOTHING
insert_city(dim_city, seq, city) ==
    IF \E r \in dim_city : r.name = city.name
    THEN dim_city
    ELSE dim_city \cup {[city_id |-> seq, name |-> city.name,
                         country_code |-> city.country,
                         latitude |-> city.lat, longitude |-> city.lng]}

\* RETURNING city_id, or the fallback SELECT city_id FROM dim_city WHERE name = ..
select_city_id(dim_city, name) ==
    (CHOOSE r \in dim_city : r.name = name).city_id

----------------------------------------------------------------------------
(* The Open-Meteo payloads: parallel arrays under "hourly".                *)

Reading == [temperature |-> Some(10), humidity |-> Some(50), wind_speed |-> Some(5)]

WeatherSamples ==
    {Reading, [temperature |-> Some(12), humidity |-> Null, wind_speed |-> Some(4)]}

\* the API reports "no data" for a particulate as a negative number
AqSamples ==
    { [pm10 |-> Some(20), pm25 |-> Some(0 - 5)],
      [pm10 |-> Some(22), pm25 |-> Some(14)],
      [pm10 |-> Some(0 - 1), pm25 |-> Null] }

WeatherResponse(hours, m) ==
    [hourly |->
       [time |-> [i \in 1..Len(hours) |-> IsoTime(hours[i])],
        temperature_2m |-> [i \in 1..Len(hours) |-> m[i].temperature],
        relative_humidity_2m |-> [i \in 1..Len(hours) |-> m[i].humidity],
        wind_speed_10m |-> [i \in 1..Len(hours) |-> m[i].wind_speed]]]

AqResponse(hours, m) ==
    [hourly |->
       [time |-> [i \in 1..Len(hours) |-> IsoTime(hours[i])],
        pm10 |-> [i \in 1..Len(hours) |-> m[i].pm10],
        pm2_5 |-> [i \in 1..Len(hours) |-> m[i].pm25]]]

\* what the API answers to a request it rejects
ErrorResponse == [error |-> TRUE]

\* a payload whose last metric array is one short of its time array
ShortAq(p) == [p EXCEPT !.hourly.pm2_5 = SubSeq(@, 1, Len(@) - 1)]

----------------------------------------------------------------------------
(* transform_data *)

SameLength(cols) == \A a, b \in cols : Len(a) = Len(b)

\* pd.DataFrame(w_data['hourly']) with the columns renamed
weather_frame(h) ==
    [i \in 1..Len(h.time) |->
       [time |-> h.time[i], temperature |-> h.temperature_2m[i],
        humidity |-> h.relative_humidity_2m[i],
        wind_speed |-> h.wind_speed_10m[i]]]

aq_frame(h) ==
    [i \in 1..Len(h.time) |->
       [time |-> h.time[i], pm10 |-> h.pm10[i], pm25 |-> h.pm2_5[i]]]

JoinRow(l, r) ==
    [time |-> l.time, temperature |-> l.temperature, humidity |-> l.humidity,
     wind_speed |-> l.wind_speed, pm10 |-> r.pm10, pm25 |-> r.pm25]

\* the right rows one left row joins, in the right frame's order
MatchesOf(l, right) ==
    LET hit == SelectSeq(right, LAMBDA r : r.time = l.time)
    IN  [k \in 1..Len(hit) |-> JoinRow(l, hit[k])]

RECURSIVE MergeFrom(_, _, _)
MergeFrom(left, right, i) ==
    IF i > Len(left) THEN <<>>
    ELSE MatchesOf(left[i], right) \o MergeFrom(left, right, i + 1)

\* the merge as how='left': a left row without a match is kept, PM columns NaN
merge_on_time_left(left, right) ==
    LET RowsOf(l) == IF MatchesOf(l, right) = <<>>
                     THEN << JoinRow(l, [pm10 |-> Null, pm25 |-> Null]) >>
                     ELSE MatchesOf(l, right)
        F[i \in 1..(Len(left) + 1)] ==
            IF i > Len(left) THEN <<>> ELSE RowsOf(left[i]) \o F[i + 1]
    IN  F[1]

\* the merge following the right frame's key order
merge_on_time_right_order(left, right) ==
    LET RowsOf(r) ==
            LET hit == SelectSeq(left, LAMBDA l : l.time = r.time)
            IN  [k \in 1..Len(hit) |-> JoinRow(hit[k], r)]
        F[i \in 1..(Len(right) + 1)] ==
            IF i > Len(right) THEN <<>> ELSE RowsOf(right[i]) \o F[i + 1]
    IN  F[1]

\* pd.merge(weather, aq, on='time', how='inner'): the left frame's key order
merge_on_time(left, right) == MergeFrom(left, right, 1)

WithTimestamp(r) ==
    [time |-> r.time, timestamp |-> to_datetime(r.time),
     temperature |-> r.temperature, humidity |-> r.humidity,
     wind_speed |-> r.wind_speed, pm10 |-> r.pm10, pm25 |-> r.pm25]

Negative(x) == ~IsNull(x) /\ Val(x) < 0

\* the cleaning step with the PM2.5 assignment left out
null_negative_pm10_only(frame) ==
    [i \in 1..Len(frame) |->
       [frame[i] EXCEPT !.pm10 = IF Negative(@) THEN Null ELSE @]]

\* the cleaning step stopping at the first row it changes
null_negative_pm_first_row(frame) ==
    LET bad == {i \in 1..Len(frame) :
                   Negative(frame[i].pm10) \/ Negative(frame[i].pm25)}
    IN  [i \in 1..Len(frame) |->
           IF i \in bad /\ \A j \in bad : i <= j
           THEN [frame[i] EXCEPT !.pm10 = IF Negative(@) THEN Null ELSE @,
                                 !.pm25 = IF Negative(@) THEN Null ELSE @]
           ELSE frame[i]]

\* the data cleaning step: negative PM10 / PM2.5 become NULL
null_negative_pm(frame) ==
    [i \in 1..Len(frame) |->
       [frame[i] EXCEPT !.pm10 = IF Negative(@) THEN Null ELSE @,
                        !.pm25 = IF Negative(@) THEN Null ELSE @]]

Malformed(wd, aqd) ==
    \/ "hourly" \notin DOMAIN wd
    \/ "hourly" \notin DOMAIN aqd
    \/ ~SameLength({wd.hourly.time, wd.hourly.temperature_2m,
                    wd.hourly.relative_humidity_2m, wd.hourly.wind_speed_10m})
    \/ ~SameLength({aqd.hourly.time, aqd.hourly.pm10, aqd.hourly.pm2_5})

transform_data(wd, aqd) ==
    IF Malformed(wd, aqd)
    THEN [ok |-> FALSE, df |-> <<>>]
    ELSE LET merged == merge_on_time(weather_frame(wd.hourly), aq_frame(aqd.hourly))
             stamped == [i \in 1..Len(merged) |-> WithTimestamp(merged[i])]
         IN  [ok |-> TRUE, df |-> null_negative_pm(stamped)]

----------------------------------------------------------------------------
(* train_and_predict_ml *)

MIN_TRAIN_ROWS == 10

Complete(r) ==
    /\ ~IsNull(r.temperature) /\ ~IsNull(r.wind_speed)
    /\ ~IsNull(r.humidity) /\ ~IsNull(r.pm25)

\* df.dropna(subset=['temperature', 'wind_speed', 'humidity', 'pm25'])
train_df(frame) == SelectSeq(frame, Complete)

RECURSIVE SumPm25(_)
SumPm25(rows) ==
    IF rows = <<>> THEN 0 ELSE Val(Head(rows).pm25) + SumPm25(Tail(rows))

\* The fitted regression is represented by the level of its target over the
\* training rows; its coefficients are not modelled.
fitted_pm25(train, r) == SumPm25(train) \div Len(train)

WithPrediction(r, p) ==
    [time |-> r.time, timestamp |-> r.timestamp,
     temperature |-> r.temperature, humidity |-> r.humidity,
     wind_speed |-> r.wind_speed, pm10 |-> r.pm10, pm25 |-> r.pm25,
     predicted_pm25 |-> p]

\* train_df.mean() of one column: every training row has it
ColumnMean(train, col) ==
    LET F[i \in 0..Len(train)] ==
            IF i = 0 THEN 0 ELSE F[i - 1] + Val(train[i][col])
    IN  IF train = <<>> THEN Null ELSE Some(F[Len(train)] \div Len(train))

fillna(x, mean) == IF IsNull(x) THEN mean ELSE x

\* X_full = df[['temperature', 'wind_speed', 'humidity']].fillna(train_df.mean())
X_full(train, r) ==
    [temperature |-> fillna(r.temperature, ColumnMean(train, "temperature")),
     wind_speed |-> fillna(r.wind_speed, ColumnMean(train, "wind_speed")),
     humidity |-> fillna(r.humidity, ColumnMean(train, "humidity"))]

\* model.predict(X_full).round(2) for one row: a number wherever the filled
\* predictors are numbers
predict(train, r) ==
    LET x == X_full(train, r)
    IN  IF IsNull(x.temperature) \/ IsNull(x.wind_speed) \/ IsNull(x.humidity)
        THEN Null
        ELSE Some(fitted_pm25(train, r))

\* the threshold test written as len(train_df) <= 10
train_and_predict_ml_le(frame) ==
    LET train == train_df(frame)
    IN  IF Len(train) <= MIN_TRAIN_ROWS
        THEN [i \in 1..Len(frame) |-> WithPrediction(frame[i], Null)]
        ELSE [i \in 1..Len(frame) |->
                WithPrediction(frame[i], predict(train, frame[i]))]

\* the variant that fills the frame's own predictor columns in place
train_and_predict_ml_imputing(frame) ==
    LET train == train_df(frame)
        Filled(r) == [r EXCEPT !.temperature = X_full(train, r).temperature,
                               !.wind_speed = X_full(train, r).wind_speed,
                               !.humidity = X_full(train, r).humidity]
    IN  IF Len(train) < MIN_TRAIN_ROWS
        THEN [i \in 1..Len(frame) |-> WithPrediction(frame[i], Null)]
        ELSE [i \in 1..Len(frame) |->
                WithPrediction(Filled(frame[i]), predict(train, frame[i]))]

train_and_predict_ml(frame) ==
    LET train == train_df(frame)
    IN  IF Len(train) < MIN_TRAIN_ROWS
        THEN [i \in 1..Len(frame) |-> WithPrediction(frame[i], Null)]
        ELSE [i \in 1..Len(frame) |->
                WithPrediction(frame[i], predict(train, frame[i]))]

----------------------------------------------------------------------------
(* load_to_db.  Where a step can fail: the statement fails on the server   *)
(* (the transaction is aborted and every later statement on the connection *)
(* is refused until a rollback), or the call raises on the client before   *)
(* the statement is sent (the transaction stays open with what it wrote).  *)

NoFailure == <<"none", "none">>

FailPoints ==
    {NoFailure, <<"commit", "server">>}
        \cup ({"city", "weather", "aq"} \X {"server", "client"})

NewConnection(tables) == [open |-> TRUE, status |-> "idle", view |-> tables]

ClosedConnection(tables) == [open |-> FALSE, status |-> "idle", view |-> tables]

\* the failed transaction's writes are gone; the connection refuses statements
AbortedOn(c, tables) == [c EXCEPT !.status = "aborted", !.view = tables]

Raised(tables, seq, c) ==
    [db |-> tables, seq |-> seq, conn |-> c, ok |-> FALSE, out |-> <<>>]

\* weather tuples built only from the rows with every weather reading
weather_data_dropna(city_id, frame) ==
    LET kept == SelectSeq(frame, LAMBDA r : /\ ~IsNull(r.temperature)
                                            /\ ~IsNull(r.humidity)
                                            /\ ~IsNull(r.wind_speed))
    IN  [i \in 1..Len(kept) |-> WeatherTuple(city_id, kept[i])]

weather_data(city_id, frame) ==
    [i \in 1..Len(frame) |-> WeatherTuple(city_id, frame[i])]

aq_data(city_id, frame) ==
    [i \in 1..Len(frame) |-> AqTuple(city_id, frame[i])]

load_to_db(tables, seq, c, frame, city, fail) ==
    LET dim1 == insert_city(c.view.dim_city, seq, city)
        city_id == select_city_id(dim1, city.name)
        wbatch == weather_data(city_id, frame)
        abatch == aq_data(city_id, frame)
        view1 == [c.view EXCEPT !.dim_city = dim1]
        view2 == [view1 EXCEPT !.fact_weather = insert_weather(@, wbatch)]
        view3 == [view2 EXCEPT !.fact_air_quality = insert_air_quality(@, abatch)]
        open(v) == [c EXCEPT !.status = "open", !.view = v]
    IN  IF ~c.open \/ c.status = "aborted"
          THEN Raised(tables, seq, c)
        ELSE IF fail = <<"city", "client">>
          THEN Raised(tables, seq, c)
        ELSE IF fail = <<"city", "server">>
          THEN Raised(tables, seq, AbortedOn(c, tables))
        ELSE IF fail = <<"weather", "client">>
          THEN Raised(tables, seq + 1, open(view1))
        ELSE IF fail = <<"weather", "server">> \/ CardinalityViolation(wbatch)
          THEN Raised(tables, seq + 1, AbortedOn(c, tables))
        ELSE IF fail = <<"aq", "client">>
          THEN Raised(tables, seq + 1, open(view2))
        ELSE IF fail = <<"aq", "server">> \/ CardinalityViolation(abatch)
          THEN Raised(tables, seq + 1, AbortedOn(c, tables))
        ELSE IF fail = <<"commit", "server">>
          THEN Raised(tables, seq + 1, AbortedOn(c, tables))
        ELSE [db |-> view3, seq |-> seq + 1,
              conn |-> [c EXCEPT !.status = "idle", !.view = view3],
              ok |-> TRUE, out |-> << <<"saved", city.name>> >>]

----------------------------------------------------------------------------
(* Direct calls of load_to_db on one connection (tests/test_integration.py, *)
(* tests/test_e2e.py): any city record, any frame, any failure.            *)

\* a city presented again with another country code and other coordinates
LoaderCities ==
    Range(CITIES) \cup
        {[name |-> "Kazan", country |-> "TT", lat |-> 557900, lng |-> 491200]}

RowSamples ==
    { [temperature |-> Some(10), humidity |-> Some(50), wind_speed |-> Some(5),
       pm10 |-> Some(20), pm25 |-> Some(14), predicted_pm25 |-> Some(13)],
      [temperature |-> Some(12), humidity |-> Null, wind_speed |-> Some(4),
       pm10 |-> Null, pm25 |-> Null, predicted_pm25 |-> Null] }

FrameRow(h, m) ==
    [time |-> IsoTime(h), timestamp |-> to_datetime(IsoTime(h)),
     temperature |-> m.temperature, humidity |-> m.humidity,
     wind_speed |-> m.wind_speed, pm10 |-> m.pm10, pm25 |-> m.pm25,
     predicted_pm25 |-> m.predicted_pm25]

FrameRows == {FrameRow(h, m) : h \in Hours, m \in RowSamples}

LoaderFrames == SeqsUpTo(FrameRows, MaxRows)

NoCity == [name |-> "", country |-> "", lat |-> 0, lng |-> 0]

NoCall == [city |-> NoCity, frame |-> <<>>, ok |-> FALSE, fail |-> "none",
           repeats |-> FALSE, after |-> "none", hit |-> FALSE]

\* the committed fact rows of the city called `name`
StoredWeather(tables, name) ==
    {r \in BagToSet(tables.fact_weather) :
        \E c \in tables.dim_city : c.name = name /\ c.city_id = r.city_id}

StoredAq(tables, name) ==
    {r \in BagToSet(tables.fact_air_quality) :
        \E c \in tables.dim_city : c.name = name /\ c.city_id = r.city_id}

\* the record kept of one load_to_db call: its input, its outcome, whether it
\* repeats the call before it, and whether it proposes other values for a
\* (city, timestamp) that was already committed
Call(city, frame, r, fail) ==
    [city |-> city, frame |-> frame, ok |-> r.ok,
     fail |-> IF r.ok THEN "none" ELSE fail[1],
     repeats |-> last.city = city /\ last.frame = frame,
     after |-> IF last.city = NoCity THEN "none"
               ELSE IF last.ok THEN "ok" ELSE "failed",
     hit |-> \E i \in 1..Len(frame) :
               /\ \E o \in StoredWeather(db, city.name) :
                     /\ o.timestamp = frame[i].timestamp
                     /\ o.temperature # frame[i].temperature
                     /\ o.humidity # frame[i].humidity
                     /\ o.wind_speed # frame[i].wind_speed
               /\ \E o \in StoredAq(db, city.name) :
                     /\ o.timestamp = frame[i].timestamp
                     /\ o.pm10 # frame[i].pm10
                     /\ o.pm25 # frame[i].pm25
                     /\ o.predicted_pm25 # frame[i].predicted_pm25]

InitCommon ==
    /\ city_id_seq = 2
    /\ idx = 0
    /\ df = <<>>
    /\ stdout = <<>>
    /\ attempted = <<>>
    /\ raised = {}
    /\ runs = 0
    /\ last = NoCall
    /\ stats = Null
    /\ selectedCityName = ""
    /\ requests = {}
    /\ loading = FALSE

InitLoader ==
    /\ InitCommon
    /\ db = EmptyTables
    /\ data = <<>>
    /\ w = <<>>
    /\ aq = <<>>
    /\ pc = "loader"
    /\ conn = NewConnection(EmptyTables)

LoaderRun(city, frame, fail) ==
    /\ pc = "loader"
    /\ runs < MaxLoads
    /\ LET r == load_to_db(db, city_id_seq, conn, frame, city, fail)
       IN  /\ db' = r.db
           /\ city_id_seq' = r.seq
           /\ conn' = r.conn
           /\ last' = Call(city, frame, r, fail)
    /\ runs' = runs + 1
    /\ UNCHANGED <<pc, idx, w, aq, df, stdout, attempted, raised, data, stats,
                   selectedCityName, requests, loading>>

\* conn.close() and a new get_db_connection(): what was not committed is lost
Reconnect ==
    /\ pc = "loader"
    /\ conn.status # "idle"
    /\ conn' = NewConnection(db)
    /\ UNCHANGED <<db, city_id_seq, pc, idx, w, aq, df, stdout, attempted, raised,
                   runs, last, data, stats,
                   selectedCityName, requests, loading>>

NextLoader ==
    \/ \E city \in LoaderCities, frame \in LoaderFrames, fail \in FailPoints :
          LoaderRun(city, frame, fail)
    \/ Reconnect

SpecLoader == InitLoader /\ [][NextLoader]_vars

----------------------------------------------------------------------------
(* main(): one invocation walks CITIES on one shared connection.           *)

\* the hourly grid 1..n the two APIs answer with, one reading per payload
Grid(n) == [i \in 1..n |-> i]

GridWeatherResponses ==
    {WeatherResponse(Grid(n), [i \in 1..n |-> Reading]) : n \in 0..MaxTs}

GridAqResponses ==
    {AqResponse(Grid(n), [i \in 1..n |-> m]) : n \in 0..MaxTs, m \in AqSamples}

\* both APIs answer for the same window, or the air-quality one lags an hour;
\* a rejected request; a payload with one array cut short
FetchedPairs ==
    {p \in GridWeatherResponses \X GridAqResponses :
        Len(p[1].hourly.time) - Len(p[2].hourly.time) \in {0, 1}}
        \cup {<<ErrorResponse, AqResponse(<<>>, <<>>)>>}
        \cup {<<WeatherResponse(Grid(1), [i \in 1..1 |-> Reading]),
                ShortAq(AqResponse(Grid(1), [i \in 1..1 |-> a]))>> :
                  a \in {x \in AqSamples : IsNull(x.pm25)}}

\* an except clause that prints nothing
except_handler_silent(out, name) == out

\* except Exception as e: print(..)
except_handler(out, name) == Append(out, <<"error", name>>)

\* the for loop goes on with the next city, or ends
next_city(i) ==
    IF i < Len(CITIES) THEN [pc |-> "fetch", idx |-> i + 1]
    ELSE [pc |-> "close", idx |-> i]

\* an except clause that leaves the loop
on_exception_break(i) == [pc |-> "close", idx |-> i]

\* the except clause swallows the exception: the loop goes on
on_exception(i) == next_city(i)

InitMain ==
    /\ InitCommon
    /\ db = EmptyTables
    /\ data = <<>>
    /\ w = <<>>
    /\ aq = <<>>
    /\ pc = "idle"
    /\ conn = ClosedConnection(EmptyTables)

\* conn = get_db_connection(); if not conn: return
Start ==
    /\ pc \in {"idle", "done"}
    /\ runs < MaxRuns
    /\ runs' = runs + 1
    /\ stdout' = <<>>
    /\ attempted' = <<>>
    /\ raised' = {}
    /\ \E connected \in BOOLEAN :
          IF connected
          THEN /\ conn' = NewConnection(db)
               /\ pc' = "fetch"
               /\ idx' = 1
          ELSE /\ conn' = ClosedConnection(db)
               /\ pc' = "done"
               /\ idx' = 0
    /\ UNCHANGED <<db, city_id_seq, w, aq, df, last, data, stats,
                   selectedCityName, requests, loading>>

Fail(stage) ==
    /\ stdout' = except_handler(stdout, CITIES[idx].name)
    /\ raised' = raised \cup {<<CITIES[idx].name, stage>>}
    /\ pc' = on_exception(idx).pc
    /\ idx' = on_exception(idx).idx
    /\ w' = <<>>
    /\ aq' = <<>>
    /\ df' = <<>>

\* w, aq = fetch_open_meteo_data(city['lat'], city['lng'])
Fetch ==
    /\ pc = "fetch"
    /\ attempted' = Append(attempted, CITIES[idx].name)
    /\ \/ \E p \in FetchedPairs :
             /\ w' = p[1]
             /\ aq' = p[2]
             /\ pc' = "transform"
             /\ UNCHANGED <<idx, df, stdout, raised>>
       \/ Fail("fetch")
    /\ UNCHANGED <<db, city_id_seq, conn, runs, last, data, stats,
                   selectedCityName, requests, loading>>

\* df = transform_data(w, aq)
Transform ==
    /\ pc = "transform"
    /\ LET r == transform_data(w, aq)
       IN  IF r.ok
           THEN /\ df' = r.df
                /\ pc' = "predict"
                /\ UNCHANGED <<idx, w, aq, stdout, raised>>
           ELSE Fail("transform")
    /\ UNCHANGED <<db, city_id_seq, conn, attempted, runs, last, data, stats,
                   selectedCityName, requests, loading>>

\* a chain that scores the scrubbed rows and drops a city whose score is 0
Predict_gated ==
    /\ pc = "predict"
    /\ IF Len(df) > 0 /\ \A i \in 1..Len(df) : IsNull(df[i].pm25)
       THEN /\ df' = <<>>
            /\ pc' = next_city(idx).pc
            /\ idx' = next_city(idx).idx
       ELSE /\ df' = train_and_predict_ml(df)
            /\ pc' = "load"
            /\ UNCHANGED idx
    /\ UNCHANGED <<db, city_id_seq, conn, w, aq, stdout, attempted, raised,
                   runs, last, data, stats, selectedCityName, requests, loading>>

\* df = train_and_predict_ml(df)
Predict ==
    /\ pc = "predict"
    /\ df' = train_and_predict_ml(df)
    /\ pc' = "load"
    /\ UNCHANGED <<db, city_id_seq, conn, idx, w, aq, stdout, attempted, raised,
                   runs, last, data, stats,
                   selectedCityName, requests, loading>>

\* load_to_db(conn, df, city['name'], city['lat'], city['lng'], city['country'])
Load ==
    /\ pc = "load"
    /\ \E fail \in FailPoints :
          LET r == load_to_db(db, city_id_seq, conn, df, CITIES[idx], fail)
          IN  /\ db' = r.db
              /\ city_id_seq' = r.seq
              /\ conn' = r.conn
              /\ IF r.ok
                 THEN /\ stdout' = stdout \o r.out
                      /\ pc' = next_city(idx).pc
                      /\ idx' = next_city(idx).idx
                      /\ w' = <<>>
                      /\ aq' = <<>>
                      /\ df' = <<>>
                      /\ UNCHANGED raised
                 ELSE Fail("load")
    /\ UNCHANGED <<attempted, runs, last, data, stats,
                   selectedCityName, requests, loading>>

\* conn.close(): what the connection had not committed is discarded
Close ==
    /\ pc = "close"
    /\ conn' = ClosedConnection(db)
    /\ pc' = "done"
    /\ UNCHANGED <<db, city_id_seq, idx, w, aq, df, stdout, attempted, raised,
                   runs, last, data, stats,
                   selectedCityName, requests, loading>>

Step == Fetch \/ Transform \/ Predict \/ Load \/ Close

Next == Start \/ Step

Spec == InitMain /\ [][Next]_vars

\* main() is one sequential thread: a started invocation keeps running
FairSpec == Spec /\ WF_vars(Step)

----------------------------------------------------------------------------
(* transform_data on its own: any two payloads, one call.                  *)

AnyHours == SeqsUpTo(1..MaxHour, MaxLen)

AnyWeatherResponses ==
    UNION {{WeatherResponse(hours, m) : m \in [1..Len(hours) -> WeatherSamples]} :
              hours \in AnyHours}

AnyAqResponses ==
    UNION {{AqResponse(hours, m) : m \in [1..Len(hours) -> AqSamples]} :
              hours \in AnyHours}

InitTransform ==
    /\ InitCommon
    /\ db = EmptyTables
    /\ data = <<>>
    /\ conn = ClosedConnection(EmptyTables)
    /\ pc = "input"
    /\ \/ /\ w \in AnyWeatherResponses
          /\ aq \in AnyAqResponses
       \/ \E p \in FetchedPairs : w = p[1] /\ aq = p[2]

CallTransform ==
    /\ pc = "input"
    /\ LET r == transform_data(w, aq)
       IN  /\ df' = r.df
           /\ pc' = IF r.ok THEN "output" ELSE "raised"
    /\ UNCHANGED <<db, city_id_seq, conn, idx, w, aq, stdout, attempted, raised,
                   runs, last, data, stats,
                   selectedCityName, requests, loading>>

NextTransform == CallTransform

SpecTransform == InitTransform /\ [][NextTransform]_vars

----------------------------------------------------------------------------
(* Properties of the loader, under SpecLoader                              *)

FactTables(tables) == {tables.fact_weather, tables.fact_air_quality}

\* C1: after any sequence of Loader runs, each fact store holds at most one
\* row per (city, timestamp); the same holds of what an open transaction sees.
C1_OneRowPerCityTimestamp ==
    \A table \in FactTables(db) \cup FactTables(conn.view) :
        \A k \in TableKeys(table) : RowsUnder(table, k) <= 1

\* a committed run proposed other values for a key that was already stored
C1_Witness ==
    /\ last.ok
    /\ last.hit
    /\ db.fact_weather # EmptyBag
    /\ db.fact_air_quality # EmptyBag

\* C2: running the Loader again with the input of the run that has just
\* committed succeeds and leaves dim_city and both fact tables as they are.
C2_UpsertIdempotent ==
    last.ok =>
        LET again == load_to_db(db, city_id_seq, NewConnection(db),
                                last.frame, last.city, NoFailure)
            same == load_to_db(db, city_id_seq, conn,
                               last.frame, last.city, NoFailure)
        IN  /\ again.ok /\ again.db = db
            /\ conn.status # "aborted" => same.ok /\ same.db = db

\* the same non-empty input was loaded twice in a row, both runs committed
C2_Witness ==
    /\ last.ok
    /\ last.repeats
    /\ last.after = "ok"
    /\ Len(last.frame) = MaxRows
    /\ \E c \in db.dim_city : c.name = last.city.name /\ c.city_id > 1

\* C3: after a Loader run has committed, every (city, timestamp) it covers
\* has exactly one weather row and one air-quality row, and their six
\* measurement columns hold the values of that run.
C3_LaterRunWins ==
    last.ok =>
        \A i \in 1..Len(last.frame) :
            LET id == select_city_id(db.dim_city, last.city.name)
                k == <<id, last.frame[i].timestamp>>
            IN  /\ RowsUnder(db.fact_weather, k) = 1
                /\ RowsUnder(db.fact_air_quality, k) = 1
                /\ WeatherTuple(id, last.frame[i]) \in BagToSet(db.fact_weather)
                /\ AqTuple(id, last.frame[i]) \in BagToSet(db.fact_air_quality)

\* a committed run replaced stored non-null humidity, pm10, pm25 and
\* predicted_pm25 by NULL, and other values of temperature and wind_speed
C3_Witness ==
    /\ last.ok
    /\ last.hit
    /\ \E i \in 1..Len(last.frame) :
          /\ IsNull(last.frame[i].pm25)
          /\ IsNull(last.frame[i].predicted_pm25)
          /\ IsNull(last.frame[i].humidity)
          /\ \E o \in StoredAq(db, last.city.name) :
                o.timestamp = last.frame[i].timestamp /\ IsNull(o.pm25)

\* the stored state by city name: dim_city without the SERIAL city_id, and
\* each fact row with its city's name in place of the city_id
Logical(tables) ==
    LET name_of(id) == (CHOOSE c \in tables.dim_city : c.city_id = id).name
        by_name(table) ==
            {<<name_of(r.city_id), [r EXCEPT !.city_id = 0], table[r]>> :
                r \in BagToSet(table)}
    IN  [dim_city |-> {[c EXCEPT !.city_id = 0] : c \in tables.dim_city},
         fact_weather |-> by_name(tables.fact_weather),
         fact_air_quality |-> by_name(tables.fact_air_quality)]

\* C5: wherever a run can start, a run of load_to_db that fails at any step,
\* followed by a run with the same input that commits, ends in the stored state of one committing run
\* from the starting state: identical tables when the second run uses the
\* same connection, the same cities and fact rows by city name when it uses
\* a new connection (the failed attempt has consumed a city_id).
C5_ReentrantAfterFailure ==
    runs < MaxLoads =>
    \A city \in LoaderCities, frame \in LoaderFrames :
        LET single == load_to_db(db, city_id_seq, conn, frame, city, NoFailure)
            once == load_to_db(db, city_id_seq, NewConnection(db),
                               frame, city, NoFailure)
        IN  \A fail \in FailPoints \ {NoFailure} :
                LET failed == load_to_db(db, city_id_seq, conn, frame, city,
                                         fail)
                    again == load_to_db(failed.db, failed.seq, failed.conn,
                                        frame, city, NoFailure)
                    fresh == load_to_db(failed.db, failed.seq,
                                        NewConnection(failed.db), frame, city,
                                        NoFailure)
                IN  /\ ~failed.ok
                    /\ again.ok => single.ok /\ again.db = single.db
                    /\ fresh.ok <=> once.ok
                    /\ fresh.ok => Logical(fresh.db) = Logical(once.db)

\* a run for a new city failed after the city upsert, and the next run, with
\* the same rows, committed them
C5_Witness ==
    /\ last.ok
    /\ last.repeats
    /\ last.after = "failed"
    /\ last.frame # <<>>
    /\ \E c \in db.dim_city : c.name = last.city.name /\ c.city_id > 2

----------------------------------------------------------------------------
(* Properties of main(), under Spec and FairSpec                           *)

\* what is committed for the city called `name`
CityRows(tables, name) ==
    [dim_city |-> {c \in tables.dim_city : c.name = name},
     fact_weather |-> StoredWeather(tables, name),
     fact_air_quality |-> StoredAq(tables, name)]

\* C4: once load_to_db has raised for a city, the committed state of that
\* city stays what it was before the run: no step of the invocation, the
\* failing one included, changes its city row, weather rows or
\* air-quality rows.
C4_FailedLoadLeavesNoRows ==
    [][\A c \in CityNames :
          <<c, "load">> \in raised' => CityRows(db', c) = CityRows(db, c)]_vars

NameOrder == [i \in 1..Len(CITIES) |-> CITIES[i].name]

\* C6: whatever stage raises for a city, the loop reaches conn.close() having
\* attempted every city of CITIES once, in order; no city is attempted twice;
\* and a started invocation ends.
C6_BatchNeverStops ==
    /\ [](pc = "close" => attempted = NameOrder)
    /\ [](\A i, j \in 1..Len(attempted) : attempted[i] = attempted[j] => i = j)
    /\ (pc = "fetch" ~> pc = "done")

\* the first city's load raised, and the invocation ended with every city
\* attempted
C6_Witness ==
    /\ pc = "done"
    /\ <<CITIES[1].name, "load">> \in raised
    /\ attempted = NameOrder

Lines(out, name) == {i \in 1..Len(out) : out[i][2] = name}

NullOrNonNegative(x) == IsNull(x) \/ Val(x) >= 0

\* C9: the frame that leaves transform_data has pm10 and pm25 NULL or >= 0 in
\* every row, and so has every air-quality row the pipeline has written,
\* committed or pending.
C9_NoNegativePm ==
    /\ pc \in {"predict", "load"} =>
          \A i \in 1..Len(df) :
              NullOrNonNegative(df[i].pm10) /\ NullOrNonNegative(df[i].pm25)
    /\ \A r \in BagToSet(db.fact_air_quality)
                  \cup BagToSet(conn.view.fact_air_quality) :
          NullOrNonNegative(r.pm10) /\ NullOrNonNegative(r.pm25)

\* a committed row whose negative pm2_5 reading was scrubbed
C9_Witness ==
    \E r \in BagToSet(db.fact_air_quality) :
        r.pm10 = Some(20) /\ IsNull(r.pm25)

----------------------------------------------------------------------------
(* Properties of transform_data, under SpecTransform                       *)

Timestamps(times) == {to_datetime(times[i]) : i \in 1..Len(times)}

\* C8: the timestamps of the merged frame are exactly those present in both
\* payloads, and every row has a timestamp.
C8_InnerJoinOnTime ==
    pc = "output" =>
        /\ {df[i].timestamp : i \in 1..Len(df)} =
              Timestamps(w.hourly.time) \cap Timestamps(aq.hourly.time)
        /\ \A i \in 1..Len(df) : df[i].timestamp \in 1..MaxHour

\* each payload has an hour the other lacks, and they share one
C8_Witness ==
    /\ pc = "output"
    /\ df # <<>>
    /\ Timestamps(w.hourly.time) \ Timestamps(aq.hourly.time) # {}
    /\ Timestamps(aq.hourly.time) \ Timestamps(w.hourly.time) # {}

\* C10: scrubbing the scrubbed frame again changes nothing.
C10_ScrubIdempotent ==
    pc = "output" => null_negative_pm(df) = df

\* two rows of the input had a negative reading
C10_Witness ==
    /\ pc = "output"
    /\ Len(df) = MaxLen
    /\ \A i \in 1..Len(df) :
          \E k \in 1..Len(aq.hourly.time) :
              /\ aq.hourly.time[k] = df[i].time
              /\ Negative(aq.hourly.pm10[k]) \/ Negative(aq.hourly.pm2_5[k])

----------------------------------------------------------------------------
(* train_and_predict_ml and load_to_db for one city, run after run, on      *)
(* frames long enough to train on.                                         *)

\* the k-th hourly row with every column present
CompleteRow(k) ==
    [time |-> IsoTime(k), timestamp |-> to_datetime(IsoTime(k)),
     temperature |-> Some(10 + k), humidity |-> Some(50),
     wind_speed |-> Some(5), pm10 |-> Some(20), pm25 |-> Some(10 + (k % 3))]

\* the same hour with a predictor missing, and with the target missing
GapRows(k) ==
    {[CompleteRow(k) EXCEPT !.humidity = Null],
     [CompleteRow(k) EXCEPT !.pm25 = Null, !.pm10 = Null]}

\* n complete rows, of which at most one is replaced by a row with a gap, or
\* followed by one
ForecastFrames ==
    UNION {
        {[i \in 1..n |-> CompleteRow(i)]}
        \cup {[i \in 1..n |-> IF i = 1 THEN g ELSE CompleteRow(i)] :
                 g \in IF n = 0 THEN {} ELSE GapRows(1)}
        \cup {[i \in 1..(n + 1) |-> IF i = n + 1 THEN g ELSE CompleteRow(i)] :
                 g \in GapRows(n + 1)}
        : n \in 0..MaxFrame}

InitForecast ==
    /\ InitCommon
    /\ db = EmptyTables
    /\ data = <<>>
    /\ w = <<>>
    /\ aq = <<>>
    /\ conn = NewConnection(EmptyTables)
    /\ pc = "stored"

\* df = train_and_predict_ml(df)
CallForecast ==
    /\ pc = "frame"
    /\ df' = train_and_predict_ml(df)
    /\ pc' = "forecast"
    /\ UNCHANGED <<db, city_id_seq, conn, idx, w, aq, stdout, attempted, raised,
                   runs, last, data, stats,
                   selectedCityName, requests, loading>>

\* load_to_db(conn, df, ..) for the first city of CITIES
LoadForecast ==
    /\ pc = "forecast"
    /\ LET r == load_to_db(db, city_id_seq, conn, df, CITIES[1], NoFailure)
       IN  /\ db' = r.db
           /\ city_id_seq' = r.seq
           /\ conn' = r.conn
    /\ runs' = runs + 1
    /\ pc' = "stored"
    /\ UNCHANGED <<idx, w, aq, df, stdout, attempted, raised, last, data, stats,
                   selectedCityName, requests, loading>>

\* the next run of the pipeline, with what the APIs answer then
NextFrame ==
    /\ pc = "stored"
    /\ runs < MaxRuns
    /\ df' \in ForecastFrames
    /\ pc' = "frame"
    /\ UNCHANGED <<db, city_id_seq, conn, idx, w, aq, stdout, attempted, raised,
                   runs, last, data, stats,
                   selectedCityName, requests, loading>>

NextForecast == CallForecast \/ LoadForecast \/ NextFrame

SpecForecast == InitForecast /\ [][NextForecast]_vars

----------------------------------------------------------------------------
(* Properties of the forecast, under SpecForecast                          *)

\* C11: with fewer than 10 training rows every row of the output has
\* predicted_pm25 NULL; with 10 or more every row has a prediction, rows with
\* a missing predictor or a missing target included. The call never raises:
\* the output has the input's rows.
C11_ForecastThreshold ==
    pc = "forecast" =>
        /\ Len(train_df(df)) < 10 =>
              \A i \in 1..Len(df) : IsNull(df[i].predicted_pm25)
        /\ Len(train_df(df)) >= 10 =>
              \A i \in 1..Len(df) : ~IsNull(df[i].predicted_pm25)
        /\ \A i \in 1..Len(df) : df[i].timestamp = i

\* exactly 10 training rows and an eleventh row without humidity, predicted
C11_Witness ==
    /\ pc = "forecast"
    /\ Len(train_df(df)) = 10
    /\ \E i \in 1..Len(df) :
          IsNull(df[i].humidity) /\ ~IsNull(df[i].predicted_pm25)

\* exactly 9 training rows in a frame of 10: nothing predicted
C11_WitnessBelow ==
    /\ pc = "forecast"
    /\ Len(train_df(df)) = 9
    /\ Len(df) = 10

\* the air-quality rows stored under the keys of the frame just loaded
WrittenAq(tables, frame) ==
    {r \in StoredAq(tables, CITIES[1].name) :
        \E i \in 1..Len(frame) : frame[i].timestamp = r.timestamp}

\* C12: a prediction appears in a run's output, and in the air-quality rows
\* the run has written, only if that run fitted a model (10 or more training
\* rows); a run that fitted none leaves predicted_pm25 NULL in every row it
\* wrote, whatever an earlier run had stored there.
C12_PredictionOnlyFromThisRun ==
    /\ pc = "forecast" =>
          \A i \in 1..Len(df) :
              ~IsNull(df[i].predicted_pm25) => Len(train_df(df)) >= 10
    /\ pc = "stored" =>
          /\ Cardinality(WrittenAq(db, df)) = Len(df)
          /\ \A r \in WrittenAq(db, df) :
                ~IsNull(r.predicted_pm25) => Len(train_df(df)) >= 10

\* the second run fitted no model and rewrote rows for which the first run
\* had stored predictions
C12_Witness ==
    /\ pc = "stored"
    /\ runs = 2
    /\ Len(df) >= 2
    /\ Len(train_df(df)) < 10
    /\ \E r \in StoredAq(db, CITIES[1].name) :
          r.timestamp > Len(df) /\ ~IsNull(r.predicted_pm25)

----------------------------------------------------------------------------
(* The dashboard's QA metrics (App.tsx, useMemo `stats`) on any rows.       *)

Count(rows, P(_)) == Cardinality({i \in 1..Len(rows) : P(rows[i])})

\* Number.prototype.toFixed(0) of num / den >= 0: the nearest integer, the
\* larger one of two equally near
toFixed0(num, den) == (2 * num + den) \div (2 * den)

Abs(x) == IF x < 0 THEN 0 - x ELSE x

\* data.filter(d => d.pm25 === null).length
missingPM(rows) == Count(rows, LAMBDA d : IsNull(d.pm25))

\* Math.max(0, 100 - (missingPM / data.length * 100)).toFixed(0)
qualityScore(rows) ==
    LET score == 100 * (Len(rows) - missingPM(rows))
    IN  toFixed0(IF score < 0 THEN 0 ELSE score, Len(rows))

\* the loop counting only a time that goes back
timestampIssues_strict(rows) ==
    Cardinality({i \in 2..Len(rows) : rows[i].timestamp < rows[i - 1].timestamp})

\* rows whose time is not after the row before
timestampIssues(rows) ==
    Cardinality({i \in 2..Len(rows) : rows[i].timestamp <= rows[i - 1].timestamp})

\* the loop with change >= 0.5
anomalyCount_ge(rows) ==
    Cardinality({i \in 2..Len(rows) :
        /\ ~IsNull(rows[i - 1].pm25)
        /\ ~IsNull(rows[i].pm25)
        /\ Val(rows[i - 1].pm25) > 0
        /\ 2 * Abs(Val(rows[i].pm25) - Val(rows[i - 1].pm25))
              >= Val(rows[i - 1].pm25)})

\* PM2.5 jumps of more than 50% of the previous value
anomalyCount(rows) ==
    Cardinality({i \in 2..Len(rows) :
        /\ ~IsNull(rows[i - 1].pm25)
        /\ ~IsNull(rows[i].pm25)
        /\ Val(rows[i - 1].pm25) > 0
        /\ 2 * Abs(Val(rows[i].pm25) - Val(rows[i - 1].pm25))
              > Val(rows[i - 1].pm25)})

\* const stats = useMemo(() => { if (data.length === 0) return null; .. })
compute_stats(rows) ==
    IF Len(rows) = 0 THEN Null
    ELSE Some([missingPM |-> missingPM(rows),
               qualityScore |-> qualityScore(rows),
               totalRows |-> Len(rows),
               timestampIssues |-> timestampIssues(rows),
               anomalyCount |-> anomalyCount(rows)])

\* {stats?.qualityScore ?? 0}
shown_qualityScore(st) == IF IsNull(st) THEN 0 ELSE Val(st).qualityScore

DataPoint(h, pm25) ==
    [timestamp |-> h, temperature |-> Some(10), humidity |-> Some(50),
     windSpeed |-> Some(5), pm10 |-> Some(20), pm25 |-> pm25,
     predictedPM25 |-> Null]

DataPoints ==
    {DataPoint(h, v) : h \in 1..2, v \in {Null, Some(0), Some(10), Some(20)}}

InitScorer ==
    /\ InitCommon
    /\ db = EmptyTables
    /\ w = <<>>
    /\ aq = <<>>
    /\ conn = ClosedConnection(EmptyTables)
    /\ pc = "loaded"
    /\ data \in SeqsUpTo(DataPoints, MaxData)

Render ==
    /\ pc = "loaded"
    /\ stats' = compute_stats(data)
    /\ pc' = "rendered"
    /\ UNCHANGED <<db, city_id_seq, conn, idx, w, aq, df, stdout, attempted,
                   raised, runs, last, data, selectedCityName, requests, loading>>

NextScorer == Render

SpecScorer == InitScorer /\ [][NextScorer]_vars

----------------------------------------------------------------------------
(* Properties of the QA metrics, under SpecScorer                          *)

\* number of rows whose pm25 is null
MissingTargets(rows) == Cardinality({i \in 1..Len(rows) : rows[i].pm25 = Null})

\* C13: for every row sequence the quality score shown is between 0 and 100,
\* and it is 100 whenever no row lacks pm25.
C13_QualityScoreBounds ==
    pc = "rendered" =>
        /\ 0 <= shown_qualityScore(stats)
        /\ shown_qualityScore(stats) <= 100
        /\ MissingTargets(data) = 0 => shown_qualityScore(stats) = 100

\* C14: for no rows at all the scorer reports quality score 100 and zero
\* missing targets, timestamp violations and anomalies.
C14_EmptyInputIsPerfect ==
    pc = "rendered" /\ data = <<>> =>
        /\ ~IsNull(stats)
        /\ Val(stats).qualityScore = 100
        /\ Val(stats).missingPM = 0
        /\ Val(stats).timestampIssues = 0
        /\ Val(stats).anomalyCount = 0

\* C15: for every non-empty row sequence missing_target_count is the number
\* of rows with pm25 null and quality_score is exactly
\* 100 - 100 * missing_target_count / total_rows (never below 0).
C15_QualityScoreFormula ==
    pc = "rendered" /\ data # <<>> =>
        /\ Val(stats).missingPM = MissingTargets(data)
        /\ Val(stats).qualityScore * Len(data)
              = 100 * (Len(data) - MissingTargets(data))

----------------------------------------------------------------------------
(* Referential integrity, under SpecLoader                                 *)

BelongsToOneCity(tables) ==
    /\ \A t \in FactTables(tables) : \A r \in BagToSet(t) :
          Cardinality({c \in tables.dim_city : c.city_id = r.city_id}) = 1
    /\ \A c1, c2 \in tables.dim_city : c1.name = c2.name => c1 = c2

\* C16: after any sequence of Loader runs every weather and air-quality row
\* references a city_id of exactly one dim_city row and no two dim_city rows
\* share a name; the same holds of what an open transaction sees.
C16_EveryRowHasOneCity ==
    BelongsToOneCity(db) /\ BelongsToOneCity(conn.view)

\* a city already in dim_city was loaded again under another country code and
\* coordinates, and its rows were committed
C16_Witness ==
    /\ last.ok
    /\ last.frame # <<>>
    /\ \E c \in db.dim_city :
          /\ c.name = last.city.name
          /\ c.country_code # last.city.country
          /\ c.city_id > 1
    /\ StoredWeather(db, last.city.name) # {}

----------------------------------------------------------------------------
(* The read side: the view dm_dashboard_analytics, GET /api/measurements,   *)
(* fetchDashboardData and the dashboard's loadData.                        *)

\* the air-quality side of a weather row that no air-quality row matches
NoAq == [city_id |-> 0, timestamp |-> 0,
         pm10 |-> Null, pm25 |-> Null, predicted_pm25 |-> Null]

ViewRow(c, wr, a) ==
    [city_name |-> c.name, timestamp |-> wr.timestamp,
     temperature |-> wr.temperature, humidity |-> wr.humidity,
     wind_speed |-> wr.wind_speed, pm10 |-> a.pm10, pm25 |-> a.pm25,
     predicted_pm25 |-> a.predicted_pm25]

\* the join written as JOIN fact_air_quality: unmatched weather rows drop out
JoinedAq_inner(tables, wr) ==
    {a \in BagToSet(tables.fact_air_quality) : Key(a) = Key(wr)}

\* LEFT JOIN fact_air_quality aq ON w.city_id = aq.city_id
\*                              AND w.timestamp = aq.timestamp
JoinedAq(tables, wr) ==
    LET hits == {a \in BagToSet(tables.fact_air_quality) : Key(a) = Key(wr)}
    IN  IF hits = {} THEN {NoAq} ELSE hits

\* FROM fact_weather w JOIN dim_city c ON w.city_id = c.city_id, then the
\* air-quality join: every combination, with the number of its copies
Joined(tables) ==
    UNION {{<<wr, c, a>> : a \in JoinedAq(tables, wr)} :
              wr \in BagToSet(tables.fact_weather), c \in tables.dim_city}

RECURSIVE SumOver(_, _)
SumOver(S, f) ==
    IF S = {} THEN 0
    ELSE LET x == CHOOSE y \in S : TRUE
         IN  f[x] + SumOver(S \ {x}, f)

\* CREATE OR REPLACE VIEW dm_dashboard_analytics, as the bag of its rows
dm_dashboard_analytics(tables) ==
    LET js == {j \in Joined(tables) : j[2].city_id = j[1].city_id}
        copies == [j \in js |->
                     tables.fact_weather[j[1]]
                       * (IF j[3] = NoAq THEN 1 ELSE tables.fact_air_quality[j[3]])]
        rows == {ViewRow(j[2], j[1], j[3]) : j \in js}
    IN  [v \in rows |->
            SumOver({j \in js : ViewRow(j[2], j[1], j[3]) = v}, copies)]

MEASUREMENTS_LIMIT == 168

\* the copies of a bag's elements, told apart by a number
Copies(bag) == UNION {{<<v, k>> : k \in 1..bag[v]} : v \in DOMAIN bag}

\* ORDER BY timestamp DESC LIMIT n over a set of row copies
RECURSIVE NewestFirst(_, _)
NewestFirst(R, n) ==
    IF R = {} \/ n = 0 THEN <<>>
    ELSE LET top == CHOOSE r \in R : \A x \in R : x[1].timestamp <= r[1].timestamp
         IN  <<top[1]>> \o NewestFirst(R \ {top}, n - 1)

\* the same with ORDER BY timestamp (ascending)
RECURSIVE OldestFirst(_, _)
OldestFirst(R, n) ==
    IF R = {} \/ n = 0 THEN <<>>
    ELSE LET top == CHOOSE r \in R : \A x \in R : x[1].timestamp >= r[1].timestamp
         IN  <<top[1]>> \o OldestFirst(R \ {top}, n - 1)

\* the query written without DESC
get_measurements_asc(tables, city_name) ==
    LET R == {r \in Copies(dm_dashboard_analytics(tables)) :
                 r[1].city_name = city_name}
        found == OldestFirst(R, MEASUREMENTS_LIMIT)
    IN  IF found = <<>> THEN [ok |-> FALSE, data |-> <<>>]
        ELSE [ok |-> TRUE, data |-> found]

\* GET /api/measurements: SELECT * FROM dm_dashboard_analytics
\* WHERE city_name = %s ORDER BY timestamp DESC LIMIT 168; no rows is an error
get_measurements(tables, city_name) ==
    LET R == {r \in Copies(dm_dashboard_analytics(tables)) :
                 r[1].city_name = city_name}
        found == NewestFirst(R, MEASUREMENTS_LIMIT)
    IN  IF found = <<>> THEN [ok |-> FALSE, data |-> <<>>]
        ELSE [ok |-> TRUE, data |-> found]

\* json.data.map((row) => ({timestamp: row.timestamp, pm10: row.pm10, ..}))
UnifiedDataPoint(row) ==
    [timestamp |-> row.timestamp, temperature |-> row.temperature,
     humidity |-> row.humidity, windSpeed |-> row.wind_speed,
     pm10 |-> row.pm10, pm25 |-> row.pm25,
     predictedPM25 |-> row.predicted_pm25]

\* fetchDashboardData(cityName): throws unless response.ok
fetchDashboardData(tables, cityName) ==
    LET response == get_measurements(tables, cityName)
    IN  [ok |-> response.ok,
         result |-> [i \in 1..Len(response.data) |->
                        UnifiedDataPoint(response.data[i])]]

\* Array.prototype.reverse
reverse(a) == [i \in 1..Len(a) |-> a[Len(a) + 1 - i]]

\* the stored value of one hour's row of one city
StoredWeatherRow(id, h) ==
    [city_id |-> id, timestamp |-> h, temperature |-> Some(10 + (h % 5)),
     humidity |-> Some(50), wind_speed |-> Some(5)]

StoredAqRow(id, h) ==
    [city_id |-> id, timestamp |-> h, pm10 |-> Some(20),
     pm25 |-> IF h % 4 = 0 THEN Null ELSE Some(10 + (h % 3)),
     predicted_pm25 |-> Null]

BothCities ==
    SeedCities \cup {[city_id |-> 3, name |-> CITIES[2].name,
                      country_code |-> CITIES[2].country,
                      latitude |-> CITIES[2].lat, longitude |-> CITIES[2].lng]}

StoreOf(wkeys, akeys) ==
    [dim_city |-> BothCities,
     fact_weather |-> SetToBag({StoredWeatherRow(k[1], k[2]) : k \in wkeys}),
     fact_air_quality |-> SetToBag({StoredAqRow(k[1], k[2]) : k \in akeys})]

\* stores of a few hours per city, any of them with or without its weather
\* row and its air-quality row
SmallStores ==
    {StoreOf(wk, ak) : wk \in SUBSET ({1, 3} \X Hours),
                       ak \in SUBSET ({1, 3} \X Hours)}

\* stores of about a week of hours for the first city, the newest hour with
\* or without its air-quality row, and one newer hour of the second city
LongStores ==
    {StoreOf(({1} \X (1..n)) \cup {<<3, n + 1>>},
             ({1} \X (1..m)) \cup {<<3, n + 1>>}) :
        n \in (MEASUREMENTS_LIMIT - 1)..(MEASUREMENTS_LIMIT + MaxOver),
        m \in (MEASUREMENTS_LIMIT - 2)..(MEASUREMENTS_LIMIT + MaxOver)}

InitDashboard ==
    /\ InitCommon
    /\ w = <<>>
    /\ aq = <<>>
    /\ data = <<>>
    /\ pc = "stored"
    /\ \E tables \in SmallStores \cup LongStores :
          /\ db = tables
          /\ conn = ClosedConnection(tables)

\* the selector: setSelectedCityName(name), name from fetchCities()
SelectCity(name) ==
    /\ pc = "stored"
    /\ selectedCityName' = name
    /\ pc' = "selected"
    /\ UNCHANGED <<db, city_id_seq, conn, idx, w, aq, df, stdout, attempted,
                   raised, runs, last, data, stats, requests, loading>>

\* loadData: setData(result.reverse()), or setData([]) in the catch clause
loadData ==
    /\ pc = "selected"
    /\ selectedCityName # ""
    /\ LET r == fetchDashboardData(db, selectedCityName)
       IN  \/ /\ r.ok
              /\ data' = reverse(r.result)
              /\ pc' = "loaded"
           \/ /\ data' = <<>>
              /\ pc' = "failed"
    /\ UNCHANGED <<db, city_id_seq, conn, idx, w, aq, df, stdout, attempted,
                   raised, runs, last, stats, selectedCityName, requests, loading>>

NextDashboard ==
    \/ \E c \in db.dim_city : SelectCity(c.name)
    \/ loadData
    \/ Render

SpecDashboard == InitDashboard /\ [][NextDashboard]_vars

----------------------------------------------------------------------------
(* Properties of the read side, under SpecDashboard                        *)

CityName(tables, id) == (CHOOSE c \in tables.dim_city : c.city_id = id).name

\* the rows of a view of one city and hour, counted with their copies
ViewRowsAt(view, name, h) ==
    SumOver({x \in DOMAIN view : x.city_name = name /\ x.timestamp = h}, view)

HasAq(tables, k) == \E a \in BagToSet(tables.fact_air_quality) : Key(a) = k

HasWeather(tables, k) == \E x \in BagToSet(tables.fact_weather) : Key(x) = k

\* C17: the view has exactly one row per weather row; a weather row without
\* an air-quality row of the same (city, timestamp) appears with pm10, pm25
\* and predicted_pm25 NULL; an air-quality row without a weather row of the
\* same key does not appear.
C17_ViewLeftJoin ==
    LET view == dm_dashboard_analytics(db)
    IN  /\ BagCardinality(view) = BagCardinality(db.fact_weather)
        /\ \A wr \in BagToSet(db.fact_weather) :
              /\ ViewRowsAt(view, CityName(db, wr.city_id), wr.timestamp) = 1
              /\ ~HasAq(db, Key(wr)) =>
                    \E v \in DOMAIN view :
                        /\ v.city_name = CityName(db, wr.city_id)
                        /\ v.timestamp = wr.timestamp
                        /\ v.temperature = wr.temperature
                        /\ IsNull(v.pm10) /\ IsNull(v.pm25)
                        /\ IsNull(v.predicted_pm25)
        /\ \A a \in BagToSet(db.fact_air_quality) :
              ~HasWeather(db, Key(a)) =>
                  ViewRowsAt(view, CityName(db, a.city_id), a.timestamp) = 0

\* the dashboard has loaded a city that has a weather-only hour, which it
\* shows with null PM columns, and an air-quality-only hour, which it lacks
C17_Witness ==
    /\ pc = "loaded"
    /\ \E c \in db.dim_city :
          /\ c.name = selectedCityName
          /\ \E wr \in BagToSet(db.fact_weather) :
                /\ wr.city_id = c.city_id
                /\ ~HasAq(db, Key(wr))
                /\ \E i \in 1..Len(data) :
                      data[i].timestamp = wr.timestamp /\ IsNull(data[i].pm10)
          /\ \E a \in BagToSet(db.fact_air_quality) :
                /\ a.city_id = c.city_id
                /\ ~HasWeather(db, Key(a))
                /\ \A i \in 1..Len(data) : data[i].timestamp # a.timestamp

\* the hours stored as weather rows of the selected city
StoredHours(tables, name) ==
    {wr.timestamp : wr \in StoredWeather(tables, name)}

\* C18: the listing the dashboard has loaded for a city holds only rows of
\* that city, at most 168 of them, strictly newest first (the dashboard keeps
\* them reversed, so strictly oldest first in `data`), and they are the rows
\* of the city's newest hours: all of them, or the newest 168.
C18_NewestRowsOfTheCity ==
    pc = "loaded" =>
        LET hours == StoredHours(db, selectedCityName)
            shown == {data[i].timestamp : i \in 1..Len(data)}
            view == DOMAIN dm_dashboard_analytics(db)
        IN  /\ Len(data) <= 168
            /\ \A i, j \in 1..Len(data) :
                  i < j => data[i].timestamp < data[j].timestamp
            /\ shown \subseteq hours
            /\ \A i \in 1..Len(data) :
                  \E v \in view :
                      /\ v.city_name = selectedCityName
                      /\ UnifiedDataPoint(v) = data[i]
            /\ \A h \in hours \ shown : \A g \in shown : h < g
            /\ Len(data) < 168 => shown = hours

\* the city has more than 168 hours stored, another city has a newer hour,
\* and the dashboard holds 168 rows
C18_Witness ==
    /\ pc = "loaded"
    /\ Len(data) = 168
    /\ Cardinality(StoredHours(db, selectedCityName)) > 168
    /\ \E wr \in BagToSet(db.fact_weather) :
          \A i \in 1..Len(data) : wr.timestamp > data[i].timestamp

----------------------------------------------------------------------------
(* The quality of the rows and the per-city chain, under Spec              *)

\* the frame with every pm25 present
WithTarget(frame) == [i \in 1..Len(frame) |-> [frame[i] EXCEPT !.pm25 = Some(14)]]

\* every row of the frame is stored for the city, as the frame has it
Persisted(tables, name, frame) ==
    \A i \in 1..Len(frame) :
        /\ \E r \in StoredWeather(tables, name) :
              r = WeatherTuple(r.city_id, frame[i])
        /\ \E r \in StoredAq(tables, name) :
              r = AqTuple(r.city_id, frame[i])

\* C19: no quality score stands between the scrubbed rows and their
\* persistence: whatever the rows' pm25 completeness, the forecast step runs
\* on them, then the load step is called with them, the load raises or not
\* regardless of the missing targets, and a load that returns has persisted
\* every row.
C19_QualityNeverGates ==
    [][ /\ pc = "predict" =>
              /\ pc' = "load"
              /\ Len(df') = Len(df)
              /\ \A i \in 1..Len(df) : df'[i].timestamp = df[i].timestamp
                                        /\ df'[i].pm25 = df[i].pm25
        /\ pc = "load" =>
              /\ \A fail \in FailPoints :
                    load_to_db(db, city_id_seq, conn, df, CITIES[idx], fail).ok
                      = load_to_db(db, city_id_seq, conn, WithTarget(df),
                                   CITIES[idx], fail).ok
              /\ \/ /\ <<CITIES[idx].name, "load">> \in raised'
                    /\ stdout' = Append(stdout, <<"error", CITIES[idx].name>>)
                 \/ /\ stdout' = Append(stdout, <<"saved", CITIES[idx].name>>)
                    /\ Persisted(db', CITIES[idx].name, df)
      ]_vars

\* a city whose rows all lack pm25 (quality score 0) has been saved and its
\* rows are stored
C19_Witness ==
    /\ Len(stdout) > 0
    /\ stdout[Len(stdout)] = <<"saved", CITIES[1].name>>
    /\ StoredAq(db, CITIES[1].name) # {}
    /\ \A r \in StoredAq(db, CITIES[1].name) : IsNull(r.pm25)
    /\ Cardinality(StoredWeather(db, CITIES[1].name))
          = Cardinality(StoredAq(db, CITIES[1].name))

\* an earlier city of this invocation raised in load_to_db
EarlierLoadFailed ==
    \E j \in 1..(idx - 1) : <<CITIES[j].name, "load">> \in raised

\* C20: a city's outcome depends on its own steps only: when an earlier city
\* of the invocation has failed in its load, a later city that has fetched and
\* transformed, and whose own load meets no failure, succeeds on the shared
\* connection and has all of its rows stored.
C20_LaterCityUnaffected ==
    (pc = "load" /\ EarlierLoadFailed) =>
        LET r == load_to_db(db, city_id_seq, conn, df, CITIES[idx], NoFailure)
        IN  /\ r.ok
            /\ Persisted(r.db, CITIES[idx].name, df)

----------------------------------------------------------------------------
(* More properties of transform_data, under SpecTransform                  *)

Min(a, b) == IF a <= b THEN a ELSE b

\* C21: the merged frame has exactly one row per timestamp present in both
\* payloads, also when a timestamp occurs more than once in a payload, so it
\* is never longer than the shorter payload.
C21_OneRowPerCommonTimestamp ==
    pc = "output" =>
        /\ Len(df) = Cardinality(Timestamps(w.hourly.time)
                                   \cap Timestamps(aq.hourly.time))
        /\ Len(df) <= Min(Len(w.hourly.time), Len(aq.hourly.time))

\* the weather part of a frame row
WeatherPart(r) ==
    [time |-> r.time, temperature |-> r.temperature, humidity |-> r.humidity,
     wind_speed |-> r.wind_speed]

\* the air-quality payload with its rows taken in the order p
Reordered(aqd, p) ==
    [hourly |->
       [time |-> [i \in 1..Len(p) |-> aqd.hourly.time[p[i]]],
        pm10 |-> [i \in 1..Len(p) |-> aqd.hourly.pm10[p[i]]],
        pm2_5 |-> [i \in 1..Len(p) |-> aqd.hourly.pm2_5[p[i]]]]]

Orders(n) ==
    {p \in [1..n -> 1..n] : \A i, j \in 1..n : p[i] = p[j] => i = j}

TimesOf(frame) == [i \in 1..Len(frame) |-> frame[i].timestamp]

\* C22: the rows of the merged frame follow the weather payload's order: row
\* by row they are weather rows taken at non-decreasing positions of the
\* weather payload (nothing is re-sorted), and with the air-quality payload
\* in any other order the frame has the same timestamps in the same order
\* and the same rows.
C22_WeatherOrderKept ==
    pc = "output" =>
        /\ \E f \in [1..Len(df) -> 1..Len(w.hourly.time)] :
              /\ \A i, j \in 1..Len(df) : i < j => f[i] <= f[j]
              /\ \A i \in 1..Len(df) :
                    WeatherPart(df[i]) = weather_frame(w.hourly)[f[i]]
        /\ \A p \in Orders(Len(aq.hourly.time)) :
              LET other == transform_data(w, Reordered(aq, p)).df
              IN  /\ TimesOf(other) = TimesOf(df)
                  /\ Range(other) = Range(df)

\* the weather payload is not in time order and the air-quality payload has
\* the same hours the other way round
C22_Witness ==
    /\ pc = "output"
    /\ Len(df) = 2
    /\ df[1].timestamp > df[2].timestamp
    /\ aq.hourly.time[1] = w.hourly.time[2]
    /\ aq.hourly.time[2] = w.hourly.time[1]

----------------------------------------------------------------------------
(* Rejected payloads in main(), under Spec                                 *)

EmptyPayload(p) == "hourly" \in DOMAIN p /\ Len(p.hourly.time) = 0

\* a payload that is empty, lacks its arrays, or has arrays of unequal length
BadPayloads(wd, aqd) ==
    Malformed(wd, aqd) \/ EmptyPayload(wd) \/ EmptyPayload(aqd)

\* C23: when a fetched payload is empty, lacks an expected array or has a
\* metric array of another length than its time array, transform_data raises
\* and yields no rows: the city's run ends there (it never reaches the
\* forecast or the load), nothing is written and the connection is left as
\* it was for the other cities.
C23_MalformedSourceData ==
    [][ /\ pc \in {"predict", "load"} => ~BadPayloads(w, aq)
        /\ (pc = "transform" /\ BadPayloads(w, aq)) =>
              /\ <<CITIES[idx].name, "transform">> \in raised'
              /\ df' = <<>>
              /\ pc' = next_city(idx).pc
              /\ db' = db
              /\ conn' = conn
      ]_vars

----------------------------------------------------------------------------
(* The two counters of the report, under SpecScorer                        *)

\* the adjacent pairs of the rows, by the position of the later row
Pairs(rows) == 2..Len(rows)

\* C24: the report's timestampIssues is the number of rows, from the second
\* on and in the order the rows are held, whose timestamp is not after the
\* timestamp of the row before; equal adjacent timestamps count, and rows in
\* strictly increasing time order give 0.
C24_TimestampOrderViolations ==
    (pc = "rendered" /\ ~IsNull(stats)) =>
        LET back == {i \in Pairs(data) : data[i].timestamp < data[i - 1].timestamp}
            same == {i \in Pairs(data) : data[i].timestamp = data[i - 1].timestamp}
        IN  /\ Val(stats).timestampIssues = Cardinality(back) + Cardinality(same)
            /\ (\A i \in Pairs(data) : data[i].timestamp > data[i - 1].timestamp)
                  => Val(stats).timestampIssues = 0

\* three rows: the second repeats the first one's time, the third is later
C24_Witness ==
    /\ pc = "rendered"
    /\ Len(data) = 3
    /\ data[2].timestamp = data[1].timestamp
    /\ data[3].timestamp > data[2].timestamp
    /\ Val(stats).timestampIssues = 1

\* the pair ending at row i is a jump of more than half of the earlier value
Jump(rows, i) ==
    LET prev == rows[i - 1].pm25
        curr == rows[i].pm25
    IN  /\ prev # Null
        /\ curr # Null
        /\ prev[1] > 0
        /\ \/ 2 * (curr[1] - prev[1]) > prev[1]
           \/ 2 * (prev[1] - curr[1]) > prev[1]

\* C25: the report's anomalyCount is the number of adjacent pairs with both
\* pm25 present, the earlier one positive and |curr - prev| / prev > 0.5; a
\* pair with a null, a pair starting from 0 and a change of exactly one half
\* are not counted.
C25_AnomalyCount ==
    (pc = "rendered" /\ ~IsNull(stats)) =>
        /\ Val(stats).anomalyCount =
              Cardinality({i \in Pairs(data) : Jump(data, i)})
        /\ (\A i \in Pairs(data) :
               \/ IsNull(data[i - 1].pm25) \/ IsNull(data[i].pm25)
               \/ data[i - 1].pm25 = Some(0)
               \/ 2 * Abs(Val(data[i].pm25) - Val(data[i - 1].pm25))
                     = Val(data[i - 1].pm25))
              => Val(stats).anomalyCount = 0

\* a doubling, then a halving (exactly one half): one anomaly
C25_Witness ==
    /\ pc = "rendered"
    /\ Len(data) = 3
    /\ data[1].pm25 = Some(10)
    /\ data[2].pm25 = Some(20)
    /\ data[3].pm25 = Some(10)
    /\ Val(stats).anomalyCount = 1

----------------------------------------------------------------------------
(* The frame train_and_predict_ml returns, under SpecForecast              *)

\* C26: train_and_predict_ml returns every row of its input, in the same
\* order, with timestamp, temperature, humidity, wind_speed, pm10 and pm25 as
\* they were; only predicted_pm25 is added, and a missing predictor stays
\* missing in the frame although its mean was used to predict.
C26_ForecastKeepsRows ==
    [][ (pc = "frame" /\ pc' = "forecast") =>
            /\ Len(df') = Len(df)
            /\ \A i \in 1..Len(df) :
                  /\ DOMAIN df'[i] = DOMAIN df[i] \cup {"predicted_pm25"}
                  /\ \A fld \in DOMAIN df[i] : df'[i][fld] = df[i][fld]
                  /\ df'[i].predicted_pm25 = Null
                        \/ df'[i].predicted_pm25 \in {Some(v) : v \in 0..100}
      ]_vars

\* the first row came without humidity: it has a prediction and still no
\* humidity
C26_Witness ==
    /\ pc = "forecast"
    /\ Len(df) = MaxFrame
    /\ IsNull(df[1].humidity)
    /\ ~IsNull(df[1].predicted_pm25)
    /\ ~IsNull(df[1].pm25)

----------------------------------------------------------------------------
(* The city dimension across loader runs, under SpecLoader                 *)

\* C27: a stored city record never changes and is never removed, whatever a
\* later run presents under its name, and every run resolves a stored name to
\* the stored city_id.
C27_CityRecordStable ==
    [][ /\ db.dim_city \subseteq db'.dim_city
        /\ \A c \in db.dim_city :
              /\ select_city_id(conn'.view.dim_city, c.name) = c.city_id
              /\ \A x \in conn'.view.dim_city : x.name = c.name => x = c
      ]_vars

\* Kazan, stored by one run, was presented by the next run with another
\* country code and other coordinates; that run committed rows under the
\* stored city_id and the stored record still has the first run's values
C27_Witness ==
    /\ last.ok
    /\ last.after = "ok"
    /\ last.city.name = "Kazan"
    /\ last.city.country = "TT"
    /\ Len(last.frame) > 0
    /\ \E c \in db.dim_city :
          /\ c.name = "Kazan"
          /\ c.country_code = "RU"
          /\ c.latitude # last.city.lat
          /\ \E r \in BagToSet(db.fact_weather) : r.city_id = c.city_id

\* the (city, timestamp) keys of a fact table
KeysOf(table) == {Key(r) : r \in BagToSet(table)}

\* C28: after any sequence of loader runs, failed ones included, every
\* (city, timestamp) key of fact_air_quality is a key of fact_weather, in
\* what is committed and in what an open transaction sees: no air-quality row
\* is out of the view's reach.
C28_AqKeysHaveWeather ==
    /\ KeysOf(db.fact_air_quality) \subseteq KeysOf(db.fact_weather)
    /\ KeysOf(conn.view.fact_air_quality) \subseteq KeysOf(conn.view.fact_weather)

\* a run that failed between the two batches left a weather row that a later
\* run committed; the later run's own rows are in both tables
C28_Witness ==
    /\ last.ok
    /\ last.after = "failed"
    /\ KeysOf(db.fact_air_quality) # {}
    /\ KeysOf(db.fact_weather) \ KeysOf(db.fact_air_quality) # {}

----------------------------------------------------------------------------
(* One city's run and the other cities' rows                               *)

\* what is stored of the city called `name`
StoredOf(tables, name) ==
    [dim_city |-> {c \in tables.dim_city : c.name = name},
     fact_weather |-> StoredWeather(tables, name),
     fact_air_quality |-> StoredAq(tables, name)]

\* C29: a run of load_to_db for one city leaves what is stored of every other
\* city (its dim_city row and its fact rows) as it was; this is what makes
\* the runs of two cities, interleaved or one after the other in either
\* order, end in the same stored state.
C29_OtherCitiesUntouched ==
    [][ runs' = runs + 1 =>
            \A name \in {c.name : c \in LoaderCities} \ {last'.city.name} :
                StoredOf(db', name) = StoredOf(db, name)
      ]_vars

----------------------------------------------------------------------------
(* process_cities: the pipelines of the two cities as two tasks, each with *)
(* its own connection; the statements of the two loads interleave and each *)
(* transaction sees what is committed and what it wrote itself.            *)

Tasks == 1..Len(CITIES)

NoWrites == [dim_city |-> {}, city_id |-> 0, weather |-> <<>>, aq |-> <<>>]

\* the stores the two tasks start on: the seeded database, or one in which
\* both cities already have the first hour
StartStores ==
    { [db |-> EmptyTables, seq |-> 2],
      [db |-> StoreOf({<<1, 1>>, <<3, 1>>}, {<<1, 1>>, <<3, 1>>}), seq |-> 4] }

InitParallel ==
    /\ \E s \in StartStores :
          /\ db = s.db
          /\ city_id_seq = s.seq
          /\ last = s
    /\ df \in [Tasks -> LoaderFrames]
    /\ pc = [t \in Tasks |-> "city"]
    /\ conn = [t \in Tasks |-> [open |-> TRUE, status |-> "idle", writes |-> NoWrites]]
    /\ idx = 0
    /\ w = <<>>
    /\ aq = <<>>
    /\ stdout = <<>>
    /\ attempted = <<>>
    /\ raised = {}
    /\ runs = 0
    /\ data = <<>>
    /\ stats = Null
    /\ selectedCityName = ""
    /\ requests = {}
    /\ loading = FALSE

\* a statement failed: the task's except clause runs and its connection is
\* closed with the transaction never committed
TaskFailed(t) ==
    /\ pc' = [pc EXCEPT ![t] = "failed"]
    /\ conn' = [conn EXCEPT ![t] = [open |-> FALSE, status |-> "idle",
                                    writes |-> NoWrites]]
    /\ stdout' = except_handler(stdout, CITIES[t].name)

\* INSERT INTO dim_city .. ON CONFLICT (name) DO NOTHING RETURNING city_id
TaskInsertCity(t) ==
    /\ pc[t] = "city"
    /\ LET dim1 == insert_city(db.dim_city, city_id_seq, CITIES[t])
       IN  conn' = [conn EXCEPT ![t].status = "open",
                                ![t].writes.dim_city = dim1 \ db.dim_city,
                                ![t].writes.city_id =
                                    select_city_id(dim1, CITIES[t].name)]
    /\ city_id_seq' = city_id_seq + 1
    /\ pc' = [pc EXCEPT ![t] = "weather"]
    /\ UNCHANGED <<db, stdout>>

\* execute_values(cur, insert_weather_query, weather_data)
TaskInsertWeather(t) ==
    /\ pc[t] = "weather"
    /\ LET wbatch == weather_data(conn[t].writes.city_id, df[t])
       IN  IF CardinalityViolation(wbatch)
           THEN TaskFailed(t)
           ELSE /\ conn' = [conn EXCEPT ![t].writes.weather = wbatch]
                /\ pc' = [pc EXCEPT ![t] = "aq"]
                /\ UNCHANGED stdout
    /\ UNCHANGED <<db, city_id_seq>>

\* execute_values(cur, insert_aq_query, aq_data)
TaskInsertAq(t) ==
    /\ pc[t] = "aq"
    /\ LET abatch == aq_data(conn[t].writes.city_id, df[t])
       IN  IF CardinalityViolation(abatch)
           THEN TaskFailed(t)
           ELSE /\ conn' = [conn EXCEPT ![t].writes.aq = abatch]
                /\ pc' = [pc EXCEPT ![t] = "commit"]
                /\ UNCHANGED stdout
    /\ UNCHANGED <<db, city_id_seq>>

\* conn.commit(): the transaction's writes become the stored rows
TaskCommit(t) ==
    /\ pc[t] = "commit"
    /\ db' = [dim_city |-> db.dim_city \cup conn[t].writes.dim_city,
              fact_weather |-> insert_weather(db.fact_weather, conn[t].writes.weather),
              fact_air_quality |->
                  insert_air_quality(db.fact_air_quality, conn[t].writes.aq)]
    /\ conn' = [conn EXCEPT ![t] = [open |-> FALSE, status |-> "idle",
                                    writes |-> NoWrites]]
    /\ pc' = [pc EXCEPT ![t] = "done"]
    /\ stdout' = Append(stdout, <<"saved", CITIES[t].name>>)
    /\ UNCHANGED city_id_seq

NextParallel ==
    /\ \E t \in Tasks :
          \/ TaskInsertCity(t)
          \/ TaskInsertWeather(t)
          \/ TaskInsertAq(t)
          \/ TaskCommit(t)
    /\ UNCHANGED <<idx, w, aq, df, attempted, raised, runs, last, data, stats,
                   selectedCityName, requests, loading>>

SpecParallel == InitParallel /\ [][NextParallel]_vars

\* the two pipelines one after the other, each on a connection of its own
OneAfterTheOther(first, second) ==
    LET r1 == load_to_db(last.db, last.seq, NewConnection(last.db),
                         df[first], CITIES[first], NoFailure)
        r2 == load_to_db(r1.db, r1.seq, NewConnection(r1.db),
                         df[second], CITIES[second], NoFailure)
    IN  r2.db

BothTasksOver == \A t \in Tasks : pc[t] \in {"done", "failed"}

\* however the statements of the two tasks interleave, the stored cities and
\* fact rows are in the end those of either sequential order, city by city
\* (the city_id a new city gets depends on the order of the INSERTs)
InterleavingIsSequential ==
    BothTasksOver =>
        /\ Logical(db) = Logical(OneAfterTheOther(1, 2))
        /\ Logical(db) = Logical(OneAfterTheOther(2, 1))

\* the same with the city_id numbers compared as well
InterleavingIsSequentialById ==
    BothTasksOver =>
        /\ db = OneAfterTheOther(1, 2)
        /\ db = OneAfterTheOther(2, 1)

\* a commit of one task leaves the other city's stored rows as they were
TaskLeavesOtherCity ==
    [][ \A t \in Tasks :
            (pc[t] = "commit" /\ pc'[t] = "done") =>
                \A u \in Tasks \ {t} :
                    StoredOf(db', CITIES[u].name) = StoredOf(db, CITIES[u].name)
      ]_vars

----------------------------------------------------------------------------
(* The dashboard with its requests in flight: loadData is async, the       *)
(* effect starts it on every change of selectedCityName and nothing cancels *)
(* a call that is still awaiting its response.                             *)

InitSelection ==
    /\ InitCommon
    /\ w = <<>>
    /\ aq = <<>>
    /\ data = <<>>
    /\ pc = "mounted"
    /\ \E tables \in SmallStores :
          /\ db = tables
          /\ conn = ClosedConnection(tables)

\* setSelectedCityName(name), by fetchCities() on mount or by the selector
\* (which is not disabled while loading); the effect on [selectedCityName]
\* runs loadData up to its await: setLoading(true), the request is sent
ChangeCity(name) ==
    /\ runs < MaxSelect
    /\ name # selectedCityName
    /\ selectedCityName' = name
    /\ requests' = requests \cup {[id |-> runs + 1, cityName |-> name]}
    /\ loading' = TRUE
    /\ runs' = runs + 1
    /\ pc' = "selected"
    /\ UNCHANGED <<db, city_id_seq, conn, idx, w, aq, df, stdout, attempted,
                   raised, last, data, stats>>

\* the rest of loadData once the response of request r has arrived:
\* setData(result.reverse()), or setData([]) in the catch clause, then
\* setLoading(false)
Respond(r) ==
    /\ r \in requests
    /\ LET res == fetchDashboardData(db, r.cityName)
       IN  IF res.ok
           THEN /\ data' = reverse(res.result)
                /\ pc' = "loaded"
           ELSE /\ data' = <<>>
                /\ pc' = "failed"
    /\ requests' = requests \ {r}
    /\ loading' = FALSE
    /\ UNCHANGED <<db, city_id_seq, conn, idx, w, aq, df, stdout, attempted,
                   raised, runs, last, stats, selectedCityName>>

NextSelection ==
    \/ \E c \in db.dim_city : ChangeCity(c.name)
    \/ \E r \in requests : Respond(r)

SpecSelection == InitSelection /\ [][NextSelection]_vars

\* what the dashboard shows for a city once its response has been handled
ShownFor(tables, name) ==
    LET res == fetchDashboardData(tables, name)
    IN  IF res.ok THEN reverse(res.result) ELSE <<>>

\* C30: once no request is awaiting its response, the rows the dashboard
\* holds are the response for the city that is selected.
C30_ShownRowsAreSelectedCitys ==
    (requests = {} /\ selectedCityName # "") =>
        data = ShownFor(db, selectedCityName)

====
